---- MODULE Spec2Model ----
(***************************************************************************)
(* Cycle-accurate model of the OpenTPU matrix-multiply unit (matrix.py).   *)
(*                                                                         *)
(* The design is synchronous: every register of the netlist is a field of  *)
(* the state, every wire is an operator over the registers and the values  *)
(* driven on the input ports in the current cycle (variable in), and one   *)
(* clock edge is one action.  PyRTL registers and memories reset to 0.     *)
(* Inside a conditional_assignment block the with-clauses of one level     *)
(* form a priority chain (first true clause wins), "otherwise" closes a    *)
(* chain and the clauses after it start a new one, a register that no      *)
(* taken clause assigns keeps its value and a wire that none assigns is 0. *)
(***************************************************************************)
EXTENDS Integers, Sequences, FiniteSets, TLC

\* ------------------------------------------------------------ parameters

DATWIDTH == 8
MATSIZE == 4
AccBits == 32
DDRBYTES == 64

\* Bounds of the model (not program constants).
MaxAddr == 1       \* accumulator addresses 0..MaxAddr
MaxVecs == 2       \* valid vectors driven in one run
MaxSwitch == 1     \* switch requests driven in one run of a component harness
MaxPulse == 1      \* weights_we pulses driven in one run of the array harness
MaxWrites == 4     \* writes driven in one run of the accumulator harness
MaxBursts == 2     \* valid memory bursts driven in one run of the MMU
MaxRequests == 2   \* switch requests driven in one run of the MMU
MaxNexts == 2      \* next_tile pulses driven in one run of the FIFO harness

RECURSIVE Pow2(_)
Pow2(n) == IF n = 0 THEN 1 ELSE 2 * Pow2(n - 1)

\* Assignment to a w-bit destination keeps the low w bits.
Trunc(x, w) == x % Pow2(w)

Min(a, b) == IF a < b THEN a ELSE b
Max(a, b) == IF a < b THEN b ELSE a

\* 1-bit logic on 0/1 values.
Xor(a, b) == (a + b) % 2
Not(a) == 1 - a
Rows == 0 .. MATSIZE - 1
Cols == 0 .. MATSIZE - 1
Addrs == 0 .. MaxAddr

\* "size = 1; while pow(2, size) < n: size = size + 1"
RECURSIVE BitsInc(_, _)
BitsInc(size, n) == IF Pow2(size) < n THEN BitsInc(size + 1, n) ELSE size

\* "logn = 1; while pow(2, logn) < n: logn = logn << 1"
RECURSIVE BitsShl(_, _)
BitsShl(size, n) == IF Pow2(size) < n THEN BitsShl(2 * size, n) ELSE size

\* A register chain: the new head enters, everything moves one place down.
Shift(chain, head) == <<head>> \o SubSeq(chain, 1, Len(chain) - 1)

Zeros(n) == [i \in 1 .. n |-> 0]

\* A 32-bit value is kept as <<high half, low half>>, two 16-bit numbers, so
\* that sums modulo 2^32 stay within the integers of the checker.
Half == Pow2(AccBits \div 2)
Word(x) == <<(x \div Half) % Half, x % Half>>
WordAdd(a, b) == <<(a[1] + b[1] + ((a[2] + b[2]) \div Half)) % Half, (a[2] + b[2]) % Half>>
MaxWord == <<Half - 1, Half - 1>>

\* A weight tile: MATSIZE rows of MATSIZE bytes; row r occupies bits
\* r*rowsize .. r*rowsize+rowsize-1 of the tile wire, byte c of a row its bits
\* c*data_width .. c*data_width+data_width-1.
TileByte(tile, r, c) == tile[r + 1][c + 1]
ZeroTile == [r \in 1 .. MATSIZE |-> Zeros(MATSIZE)]
TileW == <<  <<2, 2, 8, 6>>, <<10, 6, 2, 8>>, <<10, 9, 8, 1>>, <<1, 3, 6, 4>>  >>

VARIABLES
    in,            \* values on the input ports in the current cycle
    hist,          \* the port values of the previous cycles, latest first
    used,          \* how much stimulus the environment has driven so far
    setup,         \* registers of systolic_setup
    mac,           \* registers of the MATSIZE x MATSIZE MAC cells
    programming,   \* MMArray: a tile is being streamed into the top row
    progstep,      \* MMArray: row of the tile on the top row, also its tag
    accs,          \* per accumulator bank: memory and pipeline registers
    fifo,          \* registers of the weight FIFO
    weights_wait,  \* MMU: cycles since the last switch
    weights_count, \* MMU: progress of the programming burst
    startup        \* MMU: 0 only in the first cycle

vars == <<in, hist, used, setup, mac, programming, progstep, accs, fifo,
          weights_wait, weights_count, startup>>

ctlVars == <<fifo, weights_wait, weights_count, startup>>

\* How many past cycles hist keeps: the deepest path from the ports to the
\* last accumulator bank is 2*MATSIZE cycles.
HistLen == 2 * MATSIZE + 1

\* ------------------------------------------------------------ systolic_setup

\* Registers after reset.  diag[i] is row i of the triangular buffer: its
\* first register is firstcolumn[i], its last one lastcolumn[i].
SetupInit ==
    [ addrreg |-> 0, wereg |-> 0, clearreg |-> 0, donereg |-> 0,
      diag |-> [i \in Rows |-> Zeros(i + 1)],
      switchout |-> Zeros(MATSIZE),
      addrpipe |-> Zeros(MATSIZE), wepipe |-> Zeros(MATSIZE),
      clearpipe |-> Zeros(MATSIZE), donepipe |-> Zeros(MATSIZE) ]

\* The stage of the last-vector chain: the code feeds it from the lastvec
\* port, not from donereg.
DoneHead(s, lastvec) == lastvec

\* (mutant) no diagonal: every row leaves the buffer after one register.
SkewDepthFlat(i) == 1

\* Number of registers between element i of vec_in and row i of the array.
SkewDepth(i) == i + 1

\* One clock edge of systolic_setup.
SetupNext(s, vec_in, waddr, valid, clearbit, lastvec, switch) ==
    [ addrreg |-> waddr, wereg |-> valid, clearreg |-> clearbit, donereg |-> lastvec,
      diag |-> [i \in Rows |->
                  SubSeq(<<vec_in[i + 1]>> \o s.diag[i], 1, SkewDepth(i))],
      switchout |-> Shift(s.switchout, switch),
      addrpipe |-> Shift(s.addrpipe, s.addrreg),
      wepipe |-> Shift(s.wepipe, s.wereg),
      clearpipe |-> Shift(s.clearpipe, s.clearreg),
      donepipe |-> Shift(s.donepipe, DoneHead(s, lastvec)) ]

\* (mutant) the write address leaves the chain one register early.
addroutEarly(s) == s.addrpipe[MATSIZE - 1]

\* Outputs of systolic_setup.
lastcolumn(s, i) == s.diag[i][Len(s.diag[i])]
switchout(s, i) == s.switchout[i + 1]
addrout(s) == s.addrpipe[MATSIZE]
weout(s) == s.wepipe[MATSIZE]
clearout(s) == s.clearpipe[MATSIZE]
doneout(s) == s.donepipe[MATSIZE]

\* ------------------------------------------------------------ MAC

MACInit ==
    [ wbuf1 |-> 0, wbuf2 |-> 0, current_buffer_reg |-> 0, data_reg |-> 0,
      switch_reg |-> 0, acc_reg |-> 0, weight_reg |-> 0, weight_we_reg |-> 0,
      weight_tag_reg |-> 0 ]

\* (mutant) the buffer in use follows the stored selector only.
current_bufferStored(p, switchw) == p.current_buffer_reg

\* The buffer in use in this cycle: 0 means wbuf1, 1 means wbuf2.
current_buffer(p, switchw) == Xor(p.current_buffer_reg, switchw)

\* (mutant) the multiply takes the buffer that the stored selector names.
MACweightStored(p, switchw) == IF p.current_buffer_reg = 1 THEN p.wbuf2 ELSE p.wbuf1

\* select(current_buffer, wbuf2, wbuf1)
MACweight(p, switchw) == IF current_buffer(p, switchw) = 1 THEN p.wbuf2 ELSE p.wbuf1

\* The tag that makes a cell keep the weight passing by.
StoreTag == MATSIZE - 1

\* (mutant) the cell stores every weight that passes, whatever its tag.
MACcaptureAnyTag(weight_we, weight_tag) == weight_we = 1

\* (mutant) the cell stores on a matching tag, enabled or not.
MACcaptureAnyEnable(weight_we, weight_tag) == weight_tag = StoreTag

\* The cell stores weight_in at this clock edge.
MACcapture(weight_we, weight_tag) == weight_we = 1 /\ weight_tag = StoreTag

\* Width of "out": one more bit than the wider operand, cut to 32.
OutLen(acc_len) == Min(AccBits, Max(2 * DATWIDTH, acc_len) + 1)

MACout(p, acc_len, data_in, acc_in, switchw) ==
    Trunc(MACweight(p, switchw) * data_in + acc_in, OutLen(acc_len))

\* One clock edge of a cell whose acc_in is acc_len bits wide.
MACNext(p, acc_len, data_in, acc_in, switchw, weight_in, weight_we, weight_tag) ==
    [ wbuf1 |-> IF MACcapture(weight_we, weight_tag) /\ current_buffer(p, switchw) # 0
                THEN weight_in ELSE p.wbuf1,
      wbuf2 |-> IF MACcapture(weight_we, weight_tag) /\ current_buffer(p, switchw) = 0
                THEN weight_in ELSE p.wbuf2,
      current_buffer_reg |-> IF switchw = 1 THEN Not(p.current_buffer_reg)
                             ELSE p.current_buffer_reg,
      data_reg |-> data_in,
      switch_reg |-> switchw,
      acc_reg |-> MACout(p, acc_len, data_in, acc_in, switchw),
      weight_reg |-> weight_in,
      weight_we_reg |-> weight_we,
      weight_tag_reg |-> Trunc(weight_tag + 1, DATWIDTH) ]

\* (mutant) the sum stops at the largest value instead of wrapping.
MACoutSaturate(p, data_in, acc_in, switchw) ==
    LET w == Word(MACweight(p, switchw) * data_in)
    IN  IF w[1] + acc_in[1] + ((w[2] + acc_in[2]) \div Half) >= Half
        THEN MaxWord ELSE WordAdd(w, acc_in)

\* "out" of a cell whose acc_in is AccBits wide, as <<high, low>> halves: the
\* sum has AccBits+1 bits and out[:32] keeps the low AccBits of them.
MACoutWide(p, data_in, acc_in, switchw) ==
    WordAdd(Word(MACweight(p, switchw) * data_in), acc_in)

\* One clock edge of a cell whose acc_in is AccBits wide (acc_in and acc_reg
\* as <<high, low>> halves); no other register depends on acc_in.
MACNextWide(p, data_in, acc_in, switchw, weight_in, weight_we, weight_tag) ==
    [ MACNext(p, 1, data_in, 0, switchw, weight_in, weight_we, weight_tag)
      EXCEPT !.acc_reg = MACoutWide(p, data_in, acc_in, switchw) ]

MACInitWide == [MACInit EXCEPT !.acc_reg = Word(0)]

\* ------------------------------------------------------------ MMArray

ProgStepBits == BitsInc(1, MATSIZE)

\* Width of the partial sum entering row i: Const(0) is one bit wide.
RECURSIVE AccLen(_)
AccLen(i) == IF i = 0 THEN 1 ELSE OutLen(AccLen(i - 1))

\* Byte of the tile on top of column j: row progstep of the tile, byte j.
current_weights(tile, step, j) == TileByte(tile, step, j)

\* The wires entering cell (i, j).
CellData(m, data_in, i, j) == IF j = 0 THEN data_in[i] ELSE m[<<i, j - 1>>].data_reg
CellSwitch(m, new_weights, i, j) ==
    IF j = 0 THEN new_weights[i] ELSE m[<<i, j - 1>>].switch_reg
CellAcc(m, i, j) == IF i = 0 THEN 0 ELSE m[<<i - 1, j>>].acc_reg
CellWeight(m, tile, step, i, j) ==
    IF i = 0 THEN current_weights(tile, step, j) ELSE m[<<i - 1, j>>].weight_reg
CellWe(m, prog, i, j) == IF i = 0 THEN prog ELSE m[<<i - 1, j>>].weight_we_reg
CellTag(m, step, i, j) == IF i = 0 THEN step ELSE m[<<i - 1, j>>].weight_tag_reg

ArrayInit == [rc \in Rows \X Cols |-> MACInit]

\* One clock edge of all cells.
ArrayNext(m, prog, step, data_in, new_weights, tile) ==
    [rc \in Rows \X Cols |->
        MACNext(m[rc], AccLen(rc[1]),
                CellData(m, data_in, rc[1], rc[2]),
                CellAcc(m, rc[1], rc[2]),
                CellSwitch(m, new_weights, rc[1], rc[2]),
                CellWeight(m, tile, step, rc[1], rc[2]),
                CellWe(m, prog, rc[1], rc[2]),
                CellTag(m, step, rc[1], rc[2]))]

\* The programming sequencer.
ProgrammingNext(prog, step, weights_we) ==
    IF weights_we = 1 /\ prog = 0 THEN 1
    ELSE IF prog = 1 /\ step = MATSIZE - 1 THEN 0
    ELSE prog

ProgstepNext(prog, step) == IF prog = 1 THEN Trunc(step + 1, ProgStepBits) ELSE 0

\* data_out: the partial sums leaving the bottom row.
mouts(m, j) == m[<<MATSIZE - 1, j>>].acc_reg

\* ------------------------------------------------------------ accum

AccumInit ==
    [ mem |-> [a \in Addrs |-> Word(0)], waddrsave |-> 0, wensave |-> 0,
      wclearsave |-> 0, lastsave |-> 0 ]

\* (mutant) the overwrite flag is ignored: every write accumulates.
AccumWriteNoClear(mem, data_in, waddr, wen, wclear) ==
    IF wen = 1 THEN [mem EXCEPT ![waddr] = WordAdd(data_in, mem[waddr])] ELSE mem

\* The memory after the clock edge: a write on wen, a store on wclear and an
\* accumulate otherwise.  data_in is a 32-bit value (a narrower one is
\* zero-extended by the caller), the sum is cut to the 32 bits of a cell.
AccumWrite(mem, data_in, waddr, wen, wclear) ==
    IF wen = 1
    THEN [mem EXCEPT ![waddr] = IF wclear = 1 THEN data_in
                                ELSE WordAdd(data_in, mem[waddr])]
    ELSE mem

\* One clock edge of one accumulator.
AccumNext(a, data_in, waddr, wen, wclear, lastvec) ==
    [ mem |-> AccumWrite(a.mem, data_in, waddr, wen, wclear),
      waddrsave |-> waddr, wensave |-> wen, wclearsave |-> wclear,
      lastsave |-> lastvec ]

\* The asynchronous read port.
AccumRead(a, raddr) == a.mem[raddr]

\* ------------------------------------------------------------ accumulators

AccumulatorsInit == [j \in Cols |-> AccumInit]

\* The control wires entering bank j: the first bank takes them from
\* systolic_setup, every other bank from the bank before it.
BankWaddr(ac, waddr, j) == IF j = 0 THEN waddr ELSE ac[j - 1].waddrsave
BankWen(ac, we, j) == IF j = 0 THEN we ELSE ac[j - 1].wensave
BankWclear(ac, wclear, j) == IF j = 0 THEN wclear ELSE ac[j - 1].wclearsave
BankLastvec(ac, lastvec, j) == IF j = 0 THEN lastvec ELSE ac[j - 1].lastsave

AccumulatorsNext(ac, datas_in, waddr, we, wclear, lastvec) ==
    [j \in Cols |->
        AccumNext(ac[j], datas_in[j], BankWaddr(ac, waddr, j), BankWen(ac, we, j),
                  BankWclear(ac, wclear, j), BankLastvec(ac, lastvec, j))]

accout(ac, raddr, j) == AccumRead(ac[j], raddr)
done(ac) == ac[MATSIZE - 1].lastsave

\* ------------------------------------------------------------ FIFO

\* Sizes as the code computes them, "/" being integer division: a tile of
\* totalsize bytes, ddrwidth bytes per burst.
totalsize == MATSIZE * MATSIZE
ddrwidth == DDRBYTES
FifoStateBits == BitsShl(1, totalsize \div ddrwidth)
TopBufs == Max(1, totalsize \div ddrwidth)

\* A burst is kept as the tile in its low 8*totalsize bits: with one burst per
\* tile these are the only bits of topbuf that buf2 takes.
concat_list(topbuf) == topbuf[1]

FIFOInit ==
    [ state |-> 0, topbuf |-> [i \in 1 .. TopBufs |-> ZeroTile], full |-> 0,
      buf2 |-> ZeroTile, buf3 |-> ZeroTile, buf4 |-> ZeroTile,
      empty2 |-> 0, empty3 |-> 0, empty4 |-> 0 ]

\* The clauses of the chain that moves tiles forward; the first true one wins.
FifoMove2(f) == f.full = 1 /\ f.empty2 = 1
FifoMove3(f) == ~FifoMove2(f) /\ f.empty3 = 1 /\ f.empty2 = 0
FifoMove4(f) == ~FifoMove2(f) /\ ~FifoMove3(f) /\ f.empty4 = 1 /\ f.empty3 = 0
cleartop(f) == IF FifoMove2(f) THEN 1 ELSE 0

\* "reg.next <<= mem_data" is an unconditional assignment although it stands
\* inside the conditional block: every topbuf register takes mem_data at every
\* clock edge.
TopbufNext(f, mem_data, mem_valid) == [i \in 1 .. TopBufs |-> mem_data]

\* One clock edge of the FIFO; next_tile feeds nothing but the ready output.
FIFONext(f, mem_data, mem_valid, next_tile) ==
    [ state |-> IF mem_valid = 1 THEN Trunc(f.state + 1, FifoStateBits) ELSE f.state,
      topbuf |-> TopbufNext(f, mem_data, mem_valid),
      full |-> IF mem_valid = 1 /\ f.state = TopBufs THEN 1
               ELSE IF cleartop(f) = 1 THEN 0 ELSE f.full,
      buf2 |-> IF FifoMove2(f) THEN concat_list(f.topbuf) ELSE f.buf2,
      buf3 |-> IF FifoMove3(f) THEN f.buf2 ELSE f.buf3,
      buf4 |-> IF FifoMove4(f) THEN f.buf3 ELSE f.buf4,
      empty2 |-> IF FifoMove2(f) THEN 0 ELSE IF FifoMove3(f) THEN 1 ELSE f.empty2,
      empty3 |-> IF FifoMove3(f) THEN 0 ELSE IF FifoMove4(f) THEN 1 ELSE f.empty3,
      empty4 |-> IF FifoMove4(f) THEN 0 ELSE f.empty4 ]

\* Outputs of the FIFO.
FifoTile(f) == f.buf4
FifoReady(f, next_tile) == IF f.empty4 = 0 /\ next_tile = 0 THEN 1 ELSE 0
FifoFull(f) == f.full

\* ------------------------------------------------------------ MMU

logn1 == BitsShl(1, MATSIZE + 1)
logn == BitsShl(1, MATSIZE)
totalwait == MATSIZE + 1

\* rtl_assert(~(switch_weights & (weights_wait != 0))): the run is aborted in a
\* cycle in which this holds.
AssertFails(wait, switch) == switch = 1 /\ wait # 0

\* The clauses of the chain that drives weights_count, for the value dp of
\* done_programming: the burst starts, the burst is over, otherwise.
CountStart(f, wait, dp) == wait = totalwait /\ FifoReady(f, dp) = 1
CountFull(f, wait, count, dp) == ~CountStart(f, wait, dp) /\ count = MATSIZE

\* done_programming is next_tile of the FIFO, ready of the FIFO depends on it
\* and it depends on ready: the wire takes a value that agrees with itself.
DoneSolutions(f, wait, count) ==
    { dp \in 0 .. 1 : dp = IF CountFull(f, wait, count, dp) THEN 1 ELSE 0 }

weights_we(f, wait, count, dp) ==
    IF CountStart(f, wait, dp) \/ CountFull(f, wait, count, dp) THEN 0 ELSE 1

WeightsCountNext(f, wait, count, dp) ==
    IF CountStart(f, wait, dp) THEN 1
    ELSE IF CountFull(f, wait, count, dp) THEN 0
    ELSE Trunc(count + 1, logn)

WeightsWaitNext(wait, count, start, switch) ==
    IF start = 0 THEN totalwait
    ELSE IF switch = 1 THEN 1
    ELSE IF wait # totalwait THEN Trunc(wait + 1, logn1)
    ELSE IF count # 0 THEN 0
    ELSE wait

\* ------------------------------------------------------------ environment

\* The vectors of the repository's test run that the environment drives.
Vec1 == <<12, 7, 2, 6>>
Vec2 == <<21, 21, 18, 8>>

\* The vectors on offer, each <<vector, address, overwrite, lastvec>>: a store,
\* an accumulate onto the same address, and a last vector for another address.
VecMenu == { <<Vec1, 0, 1, 0>>, <<Vec2, 0, 0, 0>>, <<Vec2, MaxAddr, 0, 1>> }

\* Values of the data port of an accumulator driven on its own.
AccData == { Word(3), Word(5), MaxWord }

\* The ports of a MAC cell driven on its own.
PEIdle ==
    [ data_in |-> 0, acc_in |-> Word(0), switchw |-> 0, weight_in |-> 0,
      weight_we |-> 0, weight_tag |-> 0 ]

IdleIn ==
    [ vector_in |-> Zeros(MATSIZE), accum_waddr |-> 0, vec_valid |-> 0,
      accum_overwrite |-> 0, lastvec |-> 0, switch_weights |-> 0,
      ddr_data |-> ZeroTile, ddr_valid |-> 0, weights_we |-> 0, data_in |-> Word(0),
      next_tile |-> 0, pe |-> PEIdle ]

\* A cycle in which a valid vector is driven, with its metadata.
VecIn ==
    { [IdleIn EXCEPT !.vector_in = m[1], !.accum_waddr = m[2], !.vec_valid = 1,
                     !.accum_overwrite = m[3], !.lastvec = m[4]] : m \in VecMenu }

\* Cycles the environment counts after the first valid burst: the repository's
\* test run leaves 4*MATSIZE cycles between the burst and the switch request.
Settle == 4 * MATSIZE
AgeCap == Settle + HistLen + 1

\* age is 0 before the first valid burst, 1 in its cycle, and counts up from
\* there (it stops at AgeCap).  nexts counts the next_tile pulses; fullfor is
\* kept by the FIFO harness: for how many cycles in a row full has been high.
NoneUsed ==
    [ vecs |-> 0, switches |-> 0, pulses |-> 0, bursts |-> 0, age |-> 0,
      nexts |-> 0, fullfor |-> 0 ]

Count(u, x) ==
    [ vecs |-> u.vecs + x.vec_valid, switches |-> u.switches + x.switch_weights,
      pulses |-> u.pulses + x.weights_we, bursts |-> u.bursts + x.ddr_valid,
      age |-> IF u.age = 0 THEN x.ddr_valid ELSE Min(u.age + 1, AgeCap),
      nexts |-> u.nexts + x.next_tile, fullfor |-> u.fullfor ]

\* The record of the ports: the current values become the latest past ones.
HistNext(h, x) == SubSeq(<<x>> \o h, 1, Min(Len(h) + 1, HistLen))

\* ------------------------------------------------------------ array harness
\* systolic_setup, MMArray and accumulators wired as in MMU, with the tile
\* input of MMArray held at TileW and its weights_we driven from a port.

\* A switch request is a flag of a vector ("use the next weights tile beginning
\* with this vector"): it is driven with valid vectors only.
SwitchIn == { [v EXCEPT !.switch_weights = s] : v \in VecIn, s \in 0 .. 1 }

ArrayIn == { [v EXCEPT !.weights_we = w] : v \in SwitchIn \cup {IdleIn}, w \in 0 .. 1 }

ArrayAllowed(u) ==
    { x \in ArrayIn : /\ u.vecs + x.vec_valid <= MaxVecs
                      /\ u.switches + x.switch_weights <= MaxSwitch
                      /\ u.pulses + x.weights_we <= MaxPulse }

matin(s) == [i \in Rows |-> lastcolumn(s, i)]
switchin(s) == [i \in Rows |-> switchout(s, i)]
datas(m) == [j \in Cols |-> Word(mouts(m, j))]

\* One clock edge of the datapath (everything but the FIFO and the weight
\* handshake), for the write enable and the tile given.
DatapathTick(we, tile) ==
    /\ setup' = SetupNext(setup, in.vector_in, in.accum_waddr, in.vec_valid,
                          in.accum_overwrite, in.lastvec, in.switch_weights)
    /\ mac' = ArrayNext(mac, programming, progstep, matin(setup), switchin(setup), tile)
    /\ programming' = ProgrammingNext(programming, progstep, we)
    /\ progstep' = ProgstepNext(programming, progstep)
    /\ accs' = AccumulatorsNext(accs, datas(mac), addrout(setup), weout(setup),
                                clearout(setup), doneout(setup))

RegsInit ==
    /\ setup = SetupInit
    /\ mac = ArrayInit
    /\ programming = 0
    /\ progstep = 0
    /\ accs = AccumulatorsInit
    /\ fifo = FIFOInit
    /\ weights_wait = 0
    /\ weights_count = 0
    /\ startup = 0
    /\ hist = << >>

ArrayInit0 ==
    /\ RegsInit
    /\ in \in ArrayAllowed(NoneUsed)
    /\ used = Count(NoneUsed, in)

ArrayTick ==
    /\ DatapathTick(in.weights_we, TileW)
    /\ UNCHANGED ctlVars
    /\ hist' = HistNext(hist, in)
    /\ in' \in ArrayAllowed(used)
    /\ used' = Count(used, in')

ArrayNextState == ArrayTick

SpecArray == ArrayInit0 /\ [][ArrayNextState]_vars

\* ------------------------------------------------------------ the whole MMU

\* The MMU is driven as the test run drives it: bursts that carry the tile of
\* the test run, in consecutive cycles and before the first vector; vectors
\* that store Vec1 at address 0, each with or without a switch request.
MMUVec == { v \in SwitchIn : v.vector_in = Vec1 /\ v.accum_overwrite = 1 }

BurstIn(v) == { v, [v EXCEPT !.ddr_data = TileW, !.ddr_valid = 1] }

MMUIn == MMUVec \cup BurstIn(IdleIn)

MMUAllowed(u) ==
    { x \in MMUIn : /\ u.vecs + x.vec_valid <= MaxVecs
                    /\ u.switches + x.switch_weights <= MaxRequests
                    /\ u.bursts + x.ddr_valid <= MaxBursts
                    /\ x.ddr_valid = 1 => u.age <= 1 /\ u.vecs = 0 }

MMUInit ==
    /\ RegsInit
    /\ in \in MMUAllowed(NoneUsed)
    /\ used = Count(NoneUsed, in)

\* One clock edge of the MMU.  There is none after a failed assertion.
MMUTick ==
    /\ ~AssertFails(weights_wait, in.switch_weights)
    /\ \E dp \in DoneSolutions(fifo, weights_wait, weights_count) :
          /\ DatapathTick(weights_we(fifo, weights_wait, weights_count, dp),
                          FifoTile(fifo))
          /\ fifo' = FIFONext(fifo, in.ddr_data, in.ddr_valid, dp)
          /\ weights_count' = WeightsCountNext(fifo, weights_wait, weights_count, dp)
    /\ weights_wait' = WeightsWaitNext(weights_wait, weights_count, startup,
                                       in.switch_weights)
    /\ startup' = 1
    /\ hist' = HistNext(hist, in)
    /\ in' \in MMUAllowed(used)
    /\ used' = Count(used, in')

Next == MMUTick

Spec == MMUInit /\ [][Next]_vars

\* ------------------------------------------------------------ accumulator harness
\* One accum() on its own (bank 0), every port driven directly; the other
\* banks stay in reset and hist is not kept here.

AccumIn ==
    { [IdleIn EXCEPT !.data_in = d, !.accum_waddr = a, !.vec_valid = 1,
                     !.accum_overwrite = o] : d \in AccData, a \in Addrs, o \in 0 .. 1 }

AccumAllowed(u) == { x \in AccumIn \cup {IdleIn} : u.vecs + x.vec_valid <= MaxWrites }

AccumInit0 ==
    /\ RegsInit
    /\ in \in AccumAllowed(NoneUsed)
    /\ used = Count(NoneUsed, in)

AccumTick ==
    /\ accs' = [accs EXCEPT ![0] = AccumNext(accs[0], in.data_in, in.accum_waddr,
                                              in.vec_valid, in.accum_overwrite,
                                              in.lastvec)]
    /\ UNCHANGED <<setup, mac, programming, progstep, hist>>
    /\ UNCHANGED ctlVars
    /\ in' \in AccumAllowed(used)
    /\ used' = Count(used, in')

AccumNextState == AccumTick

SpecAccum == AccumInit0 /\ [][AccumNextState]_vars

\* ------------------------------------------------------------ MAC harness
\* One MAC() on its own, its acc_in AccBits wide and every port driven
\* directly: the cell is kept in mac[<<0, 0>>]; hist and used are not kept.

PEData == { 1, Pow2(DATWIDTH) - 1 }
PEWeights == { MATSIZE - 1, Pow2(DATWIDTH) - 1 }
PETags == { 0, MATSIZE - 1 }
PEAccs == { Word(5), MaxWord }

PEIn ==
    { [IdleIn EXCEPT !.pe = [ data_in |-> d, acc_in |-> a, switchw |-> s,
                              weight_in |-> w, weight_we |-> e, weight_tag |-> t ]] :
        d \in PEData, a \in PEAccs, s \in 0 .. 1, w \in PEWeights, e \in 0 .. 1,
        t \in PETags }

Cell == mac[<<0, 0>>]

MACInit0 ==
    /\ setup = SetupInit
    /\ mac = [rc \in Rows \X Cols |-> MACInitWide]
    /\ programming = 0
    /\ progstep = 0
    /\ accs = AccumulatorsInit
    /\ fifo = FIFOInit
    /\ weights_wait = 0
    /\ weights_count = 0
    /\ startup = 0
    /\ hist = << >>
    /\ used = NoneUsed
    /\ in \in PEIn

MACTick ==
    /\ mac' = [mac EXCEPT ![<<0, 0>>] =
                  MACNextWide(Cell, in.pe.data_in, in.pe.acc_in, in.pe.switchw,
                              in.pe.weight_in, in.pe.weight_we, in.pe.weight_tag)]
    /\ UNCHANGED <<setup, programming, progstep, accs, hist, used>>
    /\ UNCHANGED ctlVars
    /\ in' \in PEIn

MACNextState == MACTick

SpecMAC == MACInit0 /\ [][MACNextState]_vars

\* ------------------------------------------------------------ FIFO harness
\* FIFO() on its own: mem_data, mem_valid and next_tile driven directly; the
\* other components stay in reset and hist is not kept here.

\* The stages between the staging registers and the tile output.
FifoStages == 3

FifoIn ==
    { [v EXCEPT !.next_tile = n] : v \in BurstIn(IdleIn), n \in 0 .. 1 }

FifoAllowed(u) ==
    { x \in FifoIn : /\ u.bursts + x.ddr_valid <= MaxBursts
                     /\ u.nexts + x.next_tile <= MaxNexts }

FifoInit0 ==
    /\ RegsInit
    /\ in \in FifoAllowed(NoneUsed)
    /\ used = Count(NoneUsed, in)

FullFor(u, f) == IF FifoFull(f) = 1 THEN Min(u.fullfor + 1, FifoStages + 1) ELSE 0

FifoTick ==
    /\ fifo' = FIFONext(fifo, in.ddr_data, in.ddr_valid, in.next_tile)
    /\ UNCHANGED <<setup, mac, programming, progstep, accs, hist>>
    /\ UNCHANGED <<weights_wait, weights_count, startup>>
    /\ in' \in FifoAllowed(used)
    /\ used' = [Count(used, in') EXCEPT !.fullfor = FullFor(used, fifo')]

FifoNextState == FifoTick

SpecFifo == FifoInit0 /\ [][FifoNextState]_vars

\* ------------------------------------------------------------ observations

\* The wires at cell (i, j) in the current cycle.
SwitchAt(i, j) == CellSwitch(mac, switchin(setup), i, j)
CaptureAt(i, j) == MACcapture(CellWe(mac, programming, i, j), CellTag(mac, progstep, i, j))
WeightInAt(i, j) == CellWeight(mac, TileW, progstep, i, j)
WeightAt(i, j) == MACweight(mac[<<i, j>>], SwitchAt(i, j))

\* The buffers of a cell by its stored selector alone.
StoredActive(p) == IF p.current_buffer_reg = 0 THEN p.wbuf1 ELSE p.wbuf2
StoredInactive(p) == IF p.current_buffer_reg = 0 THEN p.wbuf2 ELSE p.wbuf1

\* The byte of the tile meant for cell (r, c): the row fed at step MATSIZE-1-r.
TileFor(tile, r, c) == TileByte(tile, MATSIZE - 1 - r, c)

\* The control wires entering bank j in the current cycle.
WaddrAt(j) == BankWaddr(accs, addrout(setup), j)
WenAt(j) == BankWen(accs, weout(setup), j)
WclearAt(j) == BankWclear(accs, clearout(setup), j)
LastvecAt(j) == BankLastvec(accs, doneout(setup), j)

\* Sum over rows 0..i of x[row] times the weight cell (row, j) uses now.
RECURSIVE ColumnSum(_, _, _)
ColumnSum(x, i, j) ==
    IF i < 0 THEN 0 ELSE ColumnSum(x, i - 1, j) + x[i + 1] * WeightAt(i, j)

\* Cycles from the ports to the control inputs of bank j.
BankDelay(j) == MATSIZE + 1 + j

\* ------------------------------------------------------------ claims

\* C1: a valid vector driven BankDelay(j) = matrix_size+1+j cycles ago, with
\* no switch request driven since, is met at bank j in this cycle by its own
\* write address, write enable and overwrite flag, and the bottom of column j
\* carries its partial sum: the sum over the rows of its elements times the
\* weights of that column.
C1_Aligned ==
    \A j \in Cols :
        ( /\ Len(hist) >= BankDelay(j)
          /\ hist[BankDelay(j)].vec_valid = 1
          /\ \A k \in 1 .. BankDelay(j) - 1 : hist[k].switch_weights = 0 )
        => /\ WaddrAt(j) = hist[BankDelay(j)].accum_waddr
           /\ WenAt(j) = 1
           /\ WclearAt(j) = hist[BankDelay(j)].accum_overwrite
           /\ mouts(mac, j) = ColumnSum(hist[BankDelay(j)].vector_in, MATSIZE - 1, j)

\* Two different vectors for different addresses, back to back, the first of
\* them at the last bank with a non-zero sum.
C1_Witness ==
    /\ Len(hist) >= BankDelay(MATSIZE - 1)
    /\ hist[BankDelay(MATSIZE - 1)].vec_valid = 1
    /\ hist[BankDelay(MATSIZE - 1) - 1].vec_valid = 1
    /\ hist[BankDelay(MATSIZE - 1)].vector_in # hist[BankDelay(MATSIZE - 1) - 1].vector_in
    /\ hist[BankDelay(MATSIZE - 1)].accum_waddr # hist[BankDelay(MATSIZE - 1) - 1].accum_waddr
    /\ \A k \in 1 .. BankDelay(MATSIZE - 1) - 1 : hist[k].switch_weights = 0
    /\ WenAt(MATSIZE - 1) = 1
    /\ mouts(mac, MATSIZE - 1) > 0
    /\ \A i \in Rows : WeightAt(i, MATSIZE - 1) = TileFor(TileW, i, MATSIZE - 1)

\* What one clock edge does to the memory of the accumulator of the harness.
C6_BankStep ==
    LET old == accs[0].mem
        new == accs'[0].mem
        waddr == in.accum_waddr
        wen == in.vec_valid
        wclear == in.accum_overwrite
    IN  /\ (wen = 1 /\ wclear = 1) => new[waddr] = in.data_in
        /\ (wen = 1 /\ wclear = 0) => new[waddr] = WordAdd(old[waddr], in.data_in)
        /\ \A a \in Addrs : (wen = 0 \/ a # waddr) => new[a] = old[a]
        /\ (wen = 1 /\ wclear = 0 /\ old[waddr] = <<0, 5>> /\ in.data_in = <<0, 3>>)
              => new[waddr] = <<0, 8>>
        /\ (wen = 1 /\ wclear = 0 /\ old[waddr] = <<65535, 65535>> /\ in.data_in = <<0, 3>>)
              => new[waddr] = <<0, 2>>
        /\ (wen = 1 /\ wclear = 1 /\ in.data_in = <<0, 3>>) => new[waddr] = <<0, 3>>

\* C6: in every cycle of an accumulator, a write with overwrite stores the incoming
\* value, a write without it stores (old + incoming) mod 2^32, every other
\* cell keeps its value and without write enable the memory is unchanged;
\* 5 then +3 gives 8, 2^32-1 then +3 wraps to 2, and storing 3 leaves 3.
C6_AccumWrite == [][C6_BankStep]_vars

\* The accumulator reads 8 at one address (5 stored, 3 added) and the wrapped
\* sum 2 at the other (2^32-1 stored, 3 added).
C6_Witness ==
    /\ AccumRead(accs[0], 0) = <<0, 8>>
    /\ AccumRead(accs[0], MaxAddr) = <<0, 2>>
    /\ used.vecs = MaxWrites
    /\ in.vec_valid = 0

\* What one clock edge does to the weight buffers of cell (r, c).
C5_CellStep(r, c) ==
    LET p == mac[<<r, c>>]
        q == mac'[<<r, c>>]
    IN  /\ CaptureAt(r, c) =>
              /\ StoredInactive(q) = TileFor(TileW, r, c)
              /\ StoredActive(q) = IF SwitchAt(r, c) = 1 THEN StoredInactive(p)
                                   ELSE StoredActive(p)
        /\ ~CaptureAt(r, c) => q.wbuf1 = p.wbuf1 /\ q.wbuf2 = p.wbuf2
        /\ (SwitchAt(r, c) = 1 /\ ~CaptureAt(r, c)) => StoredActive(q) = StoredInactive(p)
        /\ SwitchAt(r, c) = 0 => q.current_buffer_reg = p.current_buffer_reg

\* C5: with the tile held at TileW, a pass lasts matrix_size cycles, steps
\* 0..matrix_size-1; every cell stores exactly once in a pass, in its last cycle,
\* and what cell (r, c) stores is byte c of tile row matrix_size-1-r, into the
\* buffer that is inactive after the edge, the other buffer keeping its value;
\* outside that cycle no buffer changes; a switch request that reaches the cell
\* makes the inactive buffer the weight of the multiply, in that cycle and after.
C5_Distribution ==
    /\ [](\A r \in Rows, c \in Cols :
            /\ CaptureAt(r, c) <=> (programming = 1 /\ progstep = MATSIZE - 1)
            /\ CaptureAt(r, c) => WeightInAt(r, c) = TileFor(TileW, r, c)
            /\ SwitchAt(r, c) = 1 => WeightAt(r, c) = StoredInactive(mac[<<r, c>>])
            /\ mac[<<r, c>>].wbuf1 \in {0, TileFor(TileW, r, c)}
            /\ mac[<<r, c>>].wbuf2 \in {0, TileFor(TileW, r, c)})
    /\ [][ /\ (programming = 0 /\ programming' = 1) => progstep' = 0
           /\ (programming = 1 /\ progstep < MATSIZE - 1) =>
                 (programming' = 1 /\ progstep' = progstep + 1)
           /\ (programming = 1 /\ progstep = MATSIZE - 1) => programming' = 0
           /\ \A r \in Rows, c \in Cols : C5_CellStep(r, c) ]_vars

\* After a pass and a switch request, every cell multiplies by its own byte of
\* the tile (no byte of TileW is 0, the value of a buffer never written).
C5_Witness ==
    \A r \in Rows, c \in Cols :
        /\ WeightAt(r, c) = TileFor(TileW, r, c)
        /\ StoredActive(mac[<<r, c>>]) = TileFor(TileW, r, c)
        /\ StoredInactive(mac[<<r, c>>]) = 0

\* C7: element i of the vector driven i+1 cycles ago is on the data input of
\* row i (element 0 after one cycle, element i another i cycles later), and the
\* switch request driven with that vector is on the switch input of row i.
C7_Skew ==
    \A i \in Rows :
        /\ lastcolumn(setup, i) =
              IF Len(hist) >= i + 1 THEN hist[i + 1].vector_in[i + 1] ELSE 0
        /\ switchout(setup, i) =
              IF Len(hist) >= i + 1 THEN hist[i + 1].switch_weights ELSE 0

\* The last element of a vector driven with a switch request reaches the last
\* row while another vector enters the first row.
C7_Witness ==
    /\ Len(hist) >= MATSIZE
    /\ hist[MATSIZE].vec_valid = 1
    /\ hist[MATSIZE].switch_weights = 1
    /\ hist[1].vec_valid = 1
    /\ hist[1].vector_in # hist[MATSIZE].vector_in
    /\ lastcolumn(setup, MATSIZE - 1) = hist[MATSIZE].vector_in[MATSIZE]
    /\ switchout(setup, MATSIZE - 1) = 1
    /\ lastcolumn(setup, 0) = hist[1].vector_in[1]

\* C8: the address, the write enable, the overwrite flag and the last-vector
\* flag driven matrix_size+1 cycles ago leave systolic_setup together in this
\* cycle, and every bank sees the four fields of one and the same vector.
C8_MetadataTogether ==
    \A j \in Cols :
        Len(hist) >= BankDelay(j)
        => /\ WaddrAt(j) = hist[BankDelay(j)].accum_waddr
           /\ WenAt(j) = hist[BankDelay(j)].vec_valid
           /\ WclearAt(j) = hist[BankDelay(j)].accum_overwrite
           /\ LastvecAt(j) = hist[BankDelay(j)].lastvec

\* ------------------------------------------------------------ the MMU observed

\* The wires of the controller in the current cycle.
DoneNow == \E dp \in DoneSolutions(fifo, weights_wait, weights_count) : dp = 1
WeNow ==
    \E dp \in DoneSolutions(fifo, weights_wait, weights_count) :
        weights_we(fifo, weights_wait, weights_count, dp) = 1
StartNow ==
    \E dp \in DoneSolutions(fifo, weights_wait, weights_count) :
        CountStart(fifo, weights_wait, dp)
FailsNow == AssertFails(weights_wait, in.switch_weights)

\* The product of x with one row of a tile, over its elements 1 .. n.
RECURSIVE Dot(_, _, _)
Dot(x, row, n) == IF n = 0 THEN 0 ELSE x[n] * row[n] + Dot(x, row, n - 1)

\* The cycle of the first valid burst lies at least Settle cycles before the
\* cycle that is k cycles back.
DeliveredBefore(k) == used.age - 1 - k >= Settle

\* C2: a tile W was delivered through mem_data/mem_valid, a vector x was then
\* driven with a switch request, valid and overwrite for address a, and at
\* least 2*matrix_size cycles have passed with no other vector: accum_out[j]
\* read at a is the dot product of x with row j of W, for every j.
C2_EndToEnd ==
    \A k \in 2 * MATSIZE .. Len(hist) :
        ( /\ hist[k].vec_valid = 1
          /\ hist[k].switch_weights = 1
          /\ hist[k].accum_overwrite = 1
          /\ DeliveredBefore(k)
          /\ in.vec_valid = 0
          /\ \A m \in 1 .. k - 1 : hist[m].vec_valid = 0 )
        => \A j \in Cols :
               accout(accs, hist[k].accum_waddr, j)
                   = Word(Dot(hist[k].vector_in, TileW[j + 1], MATSIZE))

\* C3: the assertion fails in a cycle if and only if switch_weights is driven
\* in it while the wait counter differs from matrix_size+1.
C3_AssertIff ==
    FailsNow <=> (in.switch_weights = 1 /\ weights_wait # MATSIZE + 1)

\* C4: of two switch requests with none between them, the second fails the
\* assertion if it comes fewer than matrix_size+1 cycles after the first and
\* does not fail it if it comes at least matrix_size+1 cycles after the first.
C4_GapRule ==
    \A g \in 1 .. Len(hist) :
        ( /\ in.switch_weights = 1
          /\ hist[g].switch_weights = 1
          /\ \A m \in 1 .. g - 1 : hist[m].switch_weights = 0 )
        => (FailsNow <=> g < MATSIZE + 1)

\* C9: weights_we is high only while a programming burst is in progress, that
\* is while the progress counter, set to 1 by the start of the burst and back
\* at 0 after it, runs from 1 to matrix_size; it is low in every other cycle.
C9_WeOnlyInBurst == WeNow => weights_count \in 1 .. MATSIZE

\* C10: a burst completes: the progress counter, incremented from
\* matrix_size-1 in a cycle that starts no burst, holds matrix_size in the
\* next cycle.
C10_BurstCompletes ==
    [][(weights_count = MATSIZE - 1 /\ ~StartNow) => weights_count' = MATSIZE]_vars

\* ------------------------------------------------------------ the FIFO observed

\* The valid bursts received before the current cycle.
BurstsBefore == used.bursts - in.ddr_valid

\* C11: a tile takes TopBufs bursts; when the valid burst of the current cycle
\* is the TopBufs-th one since reset, full is high in the next cycle.
C11_FullAfterN ==
    [][(in.ddr_valid = 1 /\ used.bursts = TopBufs) => FifoFull(fifo') = 1]_vars

\* C12: when full has been high for more cycles than there are stages and no
\* tile was consumed, the tile output is the tile that the bursts carried and
\* ready is high in a cycle without next_tile.
C12_Progress ==
    (FifoFull(fifo) = 1 /\ used.fullfor > FifoStages /\ used.nexts = 0)
    => (FifoTile(fifo) = TileW /\ FifoReady(fifo, 0) = 1)

\* C13: a next_tile pulse on an occupied head stage consumes its tile: after
\* the clock edge the head stage is marked empty, or the tile of the stage
\* behind it has moved in.
C13_Consumes ==
    [][(in.next_tile = 1 /\ fifo.empty4 = 0)
       => (fifo'.empty4 = 1 \/ FifoMove4(fifo))]_vars

\* C20: ready is high only if a tile has been received through valid bursts
\* and the tile output is that tile; with no valid burst ever, ready is low.
C20_ReadyOnlyWithTile ==
    FifoReady(fifo, in.next_tile) = 1
    => (BurstsBefore >= TopBufs /\ FifoTile(fifo) = TileW)

\* ------------------------------------------------------------ the MAC observed

\* The ports of the cell in this cycle.
CaptureNow == in.pe.weight_we = 1 /\ in.pe.weight_tag = MATSIZE - 1

\* Buffer k of a cell: 0 is wbuf1, 1 is wbuf2.
Buf(p, k) == IF k = 0 THEN p.wbuf1 ELSE p.wbuf2

\* The weight that (stored selector XOR switch request) selects in this cycle.
Selected == (Cell.current_buffer_reg + in.pe.switchw) % 2
UsedWeight == Buf(Cell, Selected)

\* (w * d + a) mod 2^32 for bytes w, d and a 32-bit a given as <<high, low>>.
MacSum(w, d, a) ==
    LET low == a[2] + w * d
    IN  <<(a[1] + (low \div Half)) % Half, low % Half>>

\* C14: the multiply of a cycle uses the buffer selected by (stored selector
\* XOR switch request of that cycle), and the stored selector is inverted at
\* the clock edge if and only if the switch request was asserted.
C14_SwitchStep ==
    /\ Cell'.acc_reg = MacSum(UsedWeight, in.pe.data_in, in.pe.acc_in)
    /\ Cell'.current_buffer_reg =
           IF in.pe.switchw = 1 THEN 1 - Cell.current_buffer_reg
           ELSE Cell.current_buffer_reg

C14_SameCycleSwitch == [][C14_SwitchStep]_vars

\* A switch request has just acted on a cell whose buffers differ.
C14_Witness ==
    /\ Cell.switch_reg = 1
    /\ Cell.weight_we_reg = 0
    /\ Cell.current_buffer_reg = 1
    /\ Cell.wbuf1 # Cell.wbuf2
    /\ Cell.wbuf1 # 0
    /\ Cell.data_reg = Pow2(DATWIDTH) - 1

\* C15: a matching write (weight_we high, tag matrix_size-1) stores weight_in
\* into the buffer that the stored selector register does not name, whatever
\* the switch request of that cycle.
C15_WriteByStoredSelector ==
    [][CaptureNow => Buf(Cell', 1 - Cell.current_buffer_reg) = in.pe.weight_in]_vars

\* C16: without a matching write both buffers keep their values at the clock
\* edge; with one, at most one buffer changes.
C16_FrameStep ==
    /\ ~CaptureNow => (Cell'.wbuf1 = Cell.wbuf1 /\ Cell'.wbuf2 = Cell.wbuf2)
    /\ CaptureNow => (Cell'.wbuf1 = Cell.wbuf1 \/ Cell'.wbuf2 = Cell.wbuf2)

C16_Frame == [][C16_FrameStep]_vars

\* Both buffers hold written values and the cycle before offered a weight
\* with a tag that does not match.
C16_Witness ==
    /\ Cell.weight_we_reg = 1
    /\ Cell.weight_tag_reg = 1
    /\ Cell.wbuf1 = MATSIZE - 1
    /\ Cell.wbuf2 = Pow2(DATWIDTH) - 1
    /\ Cell.weight_reg = Pow2(DATWIDTH) - 1

\* C17: the partial sum registered at a clock edge is (weight in use *
\* activation + incoming partial sum) mod 2^32: a sum of 2^32 or more wraps.
C17_Wraps ==
    [][Cell'.acc_reg = MacSum(UsedWeight, in.pe.data_in, in.pe.acc_in)]_vars

\* The largest product was added to the largest partial sum and wrapped.
C17_Witness ==
    /\ Cell.data_reg = Pow2(DATWIDTH) - 1
    /\ Cell.acc_reg = Word((Pow2(DATWIDTH) - 1) * (Pow2(DATWIDTH) - 1) - 1)

\* C18: the weight used by the multiply in the next cycle is the one used in
\* this cycle unless the next cycle carries a switch request; no write changes
\* it.
C18_Stationary == [][in'.pe.switchw = 0 => UsedWeight' = UsedWeight]_vars

\* A matching write and a switch request came in the same cycle, no switch
\* request follows, and the buffers differ.
C18_Witness ==
    /\ Cell.weight_we_reg = 1
    /\ Cell.weight_tag_reg = MATSIZE
    /\ Cell.switch_reg = 1
    /\ in.pe.switchw = 0
    /\ Cell.wbuf1 # Cell.wbuf2
    /\ Cell.wbuf1 # 0
    /\ Cell.wbuf2 # 0

\* C19: in the MMU, no cell sees its weight write enable and its switch
\* request high in the same cycle.
C19_NoSwitchWhileStreaming ==
    \A r \in Rows, c \in Cols :
        ~(CellWe(mac, programming, r, c) = 1 /\ SwitchAt(r, c) = 1)

\* ------------------------------------------------------------ done observed

\* Bank j writes for the vector driven BankDelay(j) cycles ago, at the clock
\* edge that ends the cycle: the vector driven k cycles ago is in the memory
\* of bank j if and only if k > BankDelay(j).
CommittedIn(k, j) == k > BankDelay(j)

\* C21: when done is high, it is for a vector marked lastvec whose write has
\* been committed in every bank, so that a read in this cycle returns it.
C21_DoneAfterCommit ==
    done(accs) = 1
    => \E k \in 1 .. Len(hist) :
           /\ hist[k].vec_valid = 1
           /\ hist[k].lastvec = 1
           /\ \A j \in Cols : CommittedIn(k, j)

\* ------------------------------------------------------------ staging observed

\* The staging register holds a burst: only valid bursts carry TileW.
Staged == fifo.topbuf[1] = TileW

\* C22: in a cycle that honours back-pressure (mem_valid only while full is
\* low) a staging register that holds a received burst keeps its contents at
\* the clock edge, unless the tile moves into the shift chain.
C22_StagingKept ==
    [][(/\ Staged
        /\ in.ddr_valid = 1 => FifoFull(fifo) = 0
        /\ ~FifoMove2(fifo))
       => fifo'.topbuf = fifo.topbuf]_vars

====
